---- MODULE Spec2Model ----
(***************************************************************************)
(* hyprkan: the Kanata TCP client (class Kanata) talking to the kanata     *)
(* daemon over a newline-delimited JSON stream, and the rule lookup of     *)
(* class Config (detect_rule).                                             *)
(*                                                                         *)
(* Spec      -- the protocol client and its peer: wrapper calls, the       *)
(*              flush / sendall / bounded-wait receive of Kanata.send,     *)
(*              and a daemon that answers in time, late, not at all, or    *)
(*              with lines that are no well-formed reply.                  *)
(* SpecRules -- Config.detect_rule applied to bounded rule lists and       *)
(*              window descriptions.                                       *)
(* SpecValidate -- Config._validate over bounded configurations.           *)
(* SpecFocus -- WMBaseListener.on_focus_event: notifications, the layer    *)
(*              switch, the side effects and the command threads.          *)
(* SpecPort  -- utils.validate_port applied to bounded texts.              *)
(* SpecMain  -- main: validation, signal handlers, one-off commands and    *)
(*              listen, with signals arriving at any point.                *)
(***************************************************************************)
EXTENDS Integers, Sequences, FiniteSets, TLC

\* ------------------------------------------------------------------ bounds

\* wrapper calls made on one client in one behaviour
MaxCalls == 2
\* lines the daemon emits in one behaviour
MaxLines == 3
\* layer changes made by somebody other than this client
MaxExt == 1
\* daemon lines that are no well-formed reply
MaxBad == 1

\* rules in a configuration
MaxRules == 2
\* characters in a rule's class or title
MaxPat == 2
\* characters in a window's class or title
MaxLen == 2

\* focus notifications in a run
MaxEvents == 3
\* keys present in a configuration, over all its rules
MaxKeys == 2
\* focus notifications dispatched by a run of main
MaxDispatch == 2

\* recv(1024): the most characters one recv call returns
RecvSize == 1024
\* the largest port number, the largest octet, and the digits and the parts
\* the pattern of _is_valid_ip_port allows
PortMax == 65535
OctetMax == 255
PortDigits == 5
OctetDigits == 3
IpParts == 4

\* ----------------------------------------------------------------- values

\* the layers the daemon defines
Layers == {"base", "media"}
\* layer names a caller may pass: the daemon's, and one it does not define
LayerArgs == Layers \cup {"ghost"}

\* Python's None as a wrapper result, and the marker of an uncaught exception
None == "<None>"
AttributeError == "<AttributeError>"

\* A JSON text, by what json.loads makes of it:
\*   CurrentLayerName  {"CurrentLayerName":{"name":v}}
\*   LayerNames        {"LayerNames":{"names":[...]}}
\*   CurrentLayerInfo  {"CurrentLayerInfo":{...}}
\*   LayerChange       {"LayerChange":{"new":v}}   (the daemon's notification)
\*   array             valid JSON that is not an object, e.g. []
\*   garbage           text json.loads rejects (JSONDecodeError)
\*   blank             whitespace only
Body(k, v) == [k |-> k, v |-> v]
EmptyObject == Body("empty", "")

\* a line the daemon emitted: re the number of the request it answers, or -k
\* for the notification of the k-th layer change somebody else made
Line(re, body) == [re |-> re, body |-> body]
NoLine == Line(0, Body("none", ""))

\* a character of the stream: the text of line ln (i = 1), or the newline that
\* ends it (i = 0)
Char(ln, i) == [ln |-> ln, i |-> i]
Encode(ln) == << Char(ln, 1), Char(ln, 0) >>
IsNL(c) == c.i = 0
IsSpace(c) == c.i = 0 \/ c.ln.body.k = "blank"

\* the requests of the wire protocol
Request(k, v) == [k |-> k, v |-> v]
ReqCurrentLayerName == Request("RequestCurrentLayerName", "")
ReqCurrentLayerInfo == Request("RequestCurrentLayerInfo", "")
ReqLayerNames == Request("RequestLayerNames", "")
ReqChangeLayer(layer) == Request("ChangeLayer", layer)

\* ---------------------------------------------------------- text helpers

Min(a, b) == IF a <= b THEN a ELSE b
Last(s) == s[Len(s)]
Front(s) == SubSeq(s, 1, Len(s) - 1)

\* "\n" in text
HasNL(t) == \E i \in 1..Len(t) : IsNL(t[i])

\* text.split("\n"): the pieces between newlines, the last one what follows
\* the last newline (empty when the text ends in a newline)
RECURSIVE Split(_)
Split(t) ==
    IF ~HasNL(t) THEN << t >>
    ELSE LET i == CHOOSE i \in 1..Len(t) :
                     IsNL(t[i]) /\ \A j \in 1..(i - 1) : ~IsNL(t[j])
         IN << SubSeq(t, 1, i - 1) >> \o Split(SubSeq(t, i + 1, Len(t)))

\* text.strip(): without its leading and trailing whitespace
Strip(t) ==
    LET ink == {i \in 1..Len(t) : ~IsSpace(t[i])}
    IN IF ink = {} THEN << >>
       ELSE SubSeq(t, CHOOSE i \in ink : \A j \in ink : i <= j,
                      CHOOSE i \in ink : \A j \in ink : j <= i)

\* the loop closing Kanata.send: the first line that is not blank, stripped;
\* the empty text stands for None
RECURSIVE FirstResponse(_)
FirstResponse(lines) ==
    IF lines = << >> THEN << >>
    ELSE IF Strip(lines[1]) # << >> THEN Strip(lines[1])
    ELSE FirstResponse(Tail(lines))

\* the complete lines a text holds, each named by the request it answers
Delivered(t) ==
    {t[i].ln.re : i \in {j \in 2..Len(t) : IsNL(t[j]) /\ t[j - 1] = Char(t[j].ln, 1)}}

\* the line a returned text belongs to, and whether it is that whole line
LineOf(t) == IF t = << >> THEN NoLine ELSE t[1].ln
IsWhole(t) == t # << >> /\ t = << Char(t[1].ln, 1) >>

\* json.loads, JSONDecodeError caught: the value of a text that is one whole
\* line of valid JSON, the empty object for every other text and for None
ParseJsonResponse(t) ==
    IF t = << >> THEN EmptyObject
    ELSE IF IsWhole(t) /\ t[1].ln.body.k \notin {"garbage", "blank"}
         THEN t[1].ln.body
         ELSE EmptyObject

\* data.get(key, {}).get(field): an object without the key gives None; a JSON
\* value that is not an object has no get
GetField(data, key) ==
    IF data.k = "array" THEN AttributeError
    ELSE IF data.k = key THEN data.v
    ELSE None

\* what a typed wrapper makes of the response to its main request
WrapperResult(op, data) ==
    CASE op = "get_current_layer_name" -> GetField(data, "CurrentLayerName")
      [] op = "get_current_layer_info" -> GetField(data, "CurrentLayerInfo")
      [] op = "get_layer_names" -> GetField(data, "LayerNames")
      [] op = "change_layer" -> "True"

\* the first request a wrapper sends, and the stage its send runs in
FirstRequest(op) ==
    CASE op = "get_current_layer_name" -> ReqCurrentLayerName
      [] op = "get_current_layer_info" -> ReqCurrentLayerInfo
      [] op = "get_layer_names" -> ReqLayerNames
      [] op = "change_layer" -> ReqCurrentLayerName
FirstStage(op) == IF op = "change_layer" THEN "query" ELSE "main"

Ops == {"get_current_layer_name", "get_current_layer_info",
        "get_layer_names", "change_layer"}
ArgsOf(op) == IF op = "change_layer" THEN LayerArgs ELSE {""}

VARIABLES
    connected,   \* Kanata._connected
    buffer,      \* Kanata._buffer
    pc,          \* where the client is: idle, flush (in _flush_buffer), recv
                 \* (in send's receive loop), or ended: fatal (sys.exit),
                 \* oserror, attrerror (an exception nothing catches)
    cur,         \* the wrapper call and the send in progress
    nreq,        \* how many request lines have been written to the socket
    lastSend,    \* the record of the last send call that returned
    hist,        \* one record per wrapper call that returned
    layer,       \* the daemon's active layer
    emitted,     \* how many lines the daemon has emitted
    bad,         \* how many of them were no well-formed reply
    extN,        \* how many layer changes somebody else has made
    inflight,    \* emitted by the daemon, not yet at the client's socket
    sockbuf,     \* received by the client's socket, not yet read by recv
    peerClosed,  \* the daemon has closed the connection
    rules,       \* Config.rules
    win,         \* the window description handed to detect_rule
    found,       \* what detect_rule returned: the index of the rule, 0 for None
    rpc,         \* off; or start, done: before and after detect_rule
    last,        \* listen: last_win_class, last_win_title
    fpc,         \* off; or where on_focus_event is: idle (between
                 \* notifications), change, cmd, fake_key, set_mouse; crashed
                 \* after an exception nothing catches
    ev,          \* what the handler did on the notification in hand
    prevEv,      \* what it did on the notification before
    nev,         \* how many focus notifications there have been
    cmds,        \* the threads run_cmd_bg has started: how each stands
    known,       \* Config._validate: kanata_layers
    vi,          \* Config._validate: the rule number the loop is at
    vpc,         \* off; or where _validate is: start, loop, ended
    vres,        \* how _validate ended
    port,        \* the text given to -p/--port
    addr,        \* what validate_port made of it
    mpc,         \* off; or where main is: config, prime, names, signals, cli,
                 \* command, listen, dispatch; or how the process ended
    args,        \* what parse_args returned: the command, its arguments
    handlers,    \* setup_signals has installed handle_signal
    sock,        \* Kanata._client: unconnected, open, closed
    sig,         \* the signal the process has received, and how things
                 \* stood when it came
    wire,        \* the requests main and what it calls have written
    printed,     \* what has been printed
    ndisp        \* how many focus notifications listen has dispatched

kvars == << connected, buffer, pc, cur, nreq, lastSend, hist >>
dvars == << layer, emitted, bad, extN, inflight, sockbuf, peerClosed >>
rvars == << rules, win, found, rpc >>
hvars == << last, fpc, ev, prevEv, nev, cmds >>
cvars == << known, vi, vpc, vres >>
mvars == << port, addr, mpc, args, handlers, sock, sig, wire, printed, ndisp >>
vars == << kvars, dvars, rvars, hvars, cvars, mvars >>

\* ------------------------------------------------------------ the client

NoRequest == Request("none", "")
NoCall == [op |-> "none", arg |-> "", stage |-> "none", req |-> NoRequest,
           pending |-> NoRequest, wrote |-> << >>, qown |-> FALSE,
           qname |-> None, l0 |-> "", e0 |-> 0,
           pre |-> {}, quiet |-> FALSE, se0 |-> 0, late |-> FALSE]
NoSend == [idx |-> 0, stage |-> "none", out |-> "none", ret |-> NoLine,
           whole |-> FALSE, pre |-> {}, quiet |-> FALSE, pushed |-> FALSE]

\* Kanata.__init__, and a daemon that has not been talked to yet
KanataInit ==
    /\ connected = FALSE
    /\ buffer = << >>
    /\ pc = "idle"
    /\ cur = NoCall
    /\ nreq = 0
    /\ lastSend = NoSend
    /\ hist = << >>
    /\ layer = "base"
    /\ emitted = 0
    /\ bad = 0
    /\ extN = 0
    /\ inflight = << >>
    /\ sockbuf = << >>
    /\ peerClosed = FALSE

\* no rule lookup is under way
RulesOff ==
    /\ rules = << >>
    /\ win = [cls |-> << >>, title |-> << >>]
    /\ found = 0
    /\ rpc = "off"

\* Python's None where a string is expected
NoneText == << "<None>" >>

\* listen: last_win_title = None, last_win_class = None
NoWin == [cls |-> NoneText, title |-> NoneText]

\* the record of a focus notification: the window, how many rule lookups and
\* change_layer calls it caused, what change_layer returned, the rule found,
\* the side effects triggered in their order, the requests written to the
\* daemon, and last-seen as it was when the notification came; and, over all
\* notifications so far: the layer of the first rule that matches the latest
\* window matched by a rule with a layer ("": no such window yet), and whether
\* every current-layer query has obtained the daemon's active layer
NoEvent == [win |-> NoWin, looked |-> 0, tried |-> 0, ok |-> FALSE, rule |-> 0,
            fx |-> << >>, sent |-> 0, last0 |-> NoWin, want |-> "",
            told |-> TRUE]

\* on_focus_event has not been installed
FocusOff ==
    /\ last = NoWin
    /\ fpc = "off"
    /\ ev = NoEvent
    /\ prevEv = NoEvent
    /\ nev = 0
    /\ cmds = << >>

\* how _validate ends: ok, fatal (message logged, exit status 1), or an
\* exception nothing catches; rule is the rule number the message names (0:
\* none), why the constraint it names
Outcome(kind, rule, why) == [kind |-> kind, rule |-> rule, why |-> why]
NoOutcome == Outcome("none", 0, "")

\* no validation is under way
ValidateOff ==
    /\ known = {}
    /\ vi = 0
    /\ vpc = "off"
    /\ vres = NoOutcome

\* main is not under way
NoSignal == [name |-> "none", open |-> FALSE, n |-> 0]
NoArgs == [cmd |-> "none", fake_key |-> << >>]
NoAddress == [kind |-> "none", host |-> << >>, port |-> 0]
MainOff ==
    /\ port = << >>
    /\ addr = NoAddress
    /\ mpc = "off"
    /\ args = NoArgs
    /\ handlers = FALSE
    /\ sock = "unconnected"
    /\ sig = NoSignal
    /\ wire = << >>
    /\ printed = << >>
    /\ ndisp = 0

Init == KanataInit /\ RulesOff /\ FocusOff /\ ValidateOff /\ MainOff

\* the peer has closed and everything it sent has been read: recv returns b""
AtEOF == peerClosed /\ inflight = << >> /\ sockbuf = << >>

\* the frame of a send that starts now: the request it will write, what the
\* socket holds at this moment, and whether the daemon has already dropped
\* the connection (late)
SendEntry(c, req, stage) ==
    LET two == Cardinality(Delivered(sockbuf)) >= 2
    IN [c EXCEPT !.req = req, !.stage = stage, !.late = peerClosed,
                 !.pre = IF two THEN Delivered(sockbuf) ELSE {},
                 !.quiet = two /\ inflight = << >> /\ buffer = << >>,
                 !.se0 = IF two THEN extN ELSE 0]

\* (mutant) _connect does not prime the connection
Call_NoPrime(op, arg) ==
    /\ pc = "idle"
    /\ Len(hist) < MaxCalls
    /\ lastSend' = NoSend
    /\ LET c == [NoCall EXCEPT !.op = op, !.arg = arg, !.l0 = layer,
                               !.e0 = extN]
       IN /\ cur' = SendEntry(c, FirstRequest(op), FirstStage(op))
          /\ pc' = "flush"
          /\ connected' = TRUE
    /\ UNCHANGED << buffer, nreq, hist, dvars >>
    /\ UNCHANGED << rvars, hvars, cvars, mvars >>

\* a typed wrapper is called: Kanata.send starts, connecting first (_connect)
\* when this is the client's first send; a refused connection is fatal
Call(op, arg) ==
    /\ pc = "idle"
    /\ Len(hist) < MaxCalls
    /\ lastSend' = NoSend
    /\ LET c == [NoCall EXCEPT !.op = op, !.arg = arg, !.l0 = layer,
                               !.e0 = extN]
       IN IF connected
          THEN /\ cur' = SendEntry(c, FirstRequest(op), FirstStage(op))
               /\ pc' = "flush"
               /\ UNCHANGED connected
          ELSE \E ok \in BOOLEAN :
                 IF ok
                 THEN /\ connected' = TRUE
                      /\ cur' = SendEntry([c EXCEPT !.pending = FirstRequest(op)],
                                          ReqCurrentLayerName, "prime")
                      /\ pc' = "flush"
                 ELSE /\ pc' = "fatal"
                      /\ cur' = c
                      /\ UNCHANGED connected
    /\ UNCHANGED << buffer, nreq, hist, dvars >>
    /\ UNCHANGED << rvars, hvars, cvars, mvars >>

\* one recv(1024) of the socket: what it returns, and what it leaves
Chunk == SubSeq(sockbuf, 1, Min(Len(sockbuf), RecvSize))
Rest == SubSeq(sockbuf, Min(Len(sockbuf), RecvSize) + 1, Len(sockbuf))

\* _flush_buffer, one turn of its loop: recv returns what has arrived
FlushRecv ==
    /\ pc = "flush"
    /\ sockbuf # << >>
    /\ buffer' = buffer \o Chunk
    /\ sockbuf' = Rest
    /\ UNCHANGED << connected, pc, cur, nreq, lastSend, hist,
                    layer, emitted, bad, extN, inflight, peerClosed >>
    /\ UNCHANGED << rvars, hvars, cvars, mvars >>

\* what the daemon answers to a request when its layer is l
Answer(req, l) ==
    CASE req.k = "RequestCurrentLayerName" -> Body("CurrentLayerName", l)
      [] req.k = "RequestCurrentLayerInfo" -> Body("CurrentLayerInfo", l)
      [] req.k = "RequestLayerNames" -> Body("LayerNames", "names")
      [] req.k = "ChangeLayer" ->
           IF req.v \in Layers THEN Body("LayerChange", req.v)
           ELSE Body("Error", req.v)

Malformed == {Body("garbage", ""), Body("array", ""), Body("blank", "")}

\* the daemon puts a line on the stream
Emit(re, body) ==
    /\ emitted < MaxLines
    /\ emitted' = emitted + 1
    /\ inflight' = inflight \o Encode(Line(re, body))

\* the daemon processes request number idx as it is written: a ChangeLayer to
\* a layer it defines takes effect; it answers well, or with a line that is no
\* reply, or not at all. (A daemon that is slow to answer is, to the client, a
\* slow delivery: see Deliver.)
DaemonServe(idx, req) ==
    LET l == IF req.k = "ChangeLayer" /\ req.v \in Layers THEN req.v ELSE layer
    IN /\ layer' = l
       /\ \/ Emit(idx, Answer(req, l)) /\ UNCHANGED bad
          \/ /\ bad < MaxBad
             /\ bad' = bad + 1
             /\ \E b \in Malformed : Emit(idx, b)
          \/ UNCHANGED << emitted, inflight, bad >>


\* (mutant) _flush_buffer forgets to cut the buffer down to its last piece
Flushed_KeepAll(buf) == buf

\* what _flush_buffer keeps of the buffer
Flushed(buf) == IF HasNL(buf) THEN Last(Split(buf)) ELSE buf

\* the end of _flush_buffer and send's sendall: the request goes on the wire
\* and the wait for its response starts. Writing to a connection the peer has
\* closed may raise; inside _connect that is caught and fatal
AfterFlush ==
    /\ buffer' = Flushed(buffer)
    /\ \E ok \in (IF peerClosed THEN BOOLEAN ELSE {TRUE}) :
         IF ok
         THEN /\ nreq' = nreq + 1
              /\ cur' = [cur EXCEPT !.wrote = Append(@, cur.req.k)]
              /\ pc' = "recv"
              /\ IF peerClosed
                 THEN UNCHANGED << layer, emitted, bad, inflight >>
                 ELSE DaemonServe(nreq + 1, cur.req)
         ELSE /\ pc' = IF cur.stage = "prime" THEN "fatal" ELSE "oserror"
              /\ UNCHANGED << nreq, cur, layer, emitted, bad, inflight >>
    /\ UNCHANGED << connected, lastSend, hist, extN, sockbuf, peerClosed >>
    /\ UNCHANGED << rvars, hvars, cvars, mvars >>

\* (mutant) _flush_buffer gives up without reading what has arrived
FlushTimeout_NoDrain ==
    /\ pc = "flush"
    /\ ~AtEOF
    /\ AfterFlush

\* _flush_buffer: nothing arrives within its wait (socket.timeout)
FlushTimeout ==
    /\ pc = "flush"
    /\ sockbuf = << >>
    /\ ~AtEOF
    /\ AfterFlush

\* _flush_buffer: recv returns b"", the peer has closed
FlushEOF ==
    /\ pc = "flush"
    /\ AtEOF
    /\ AfterFlush

\* the record of a send that returns text t (empty: None) by way `out`
SendRecord(t, out) ==
    [idx |-> nreq, stage |-> cur.stage, out |-> out, ret |-> LineOf(t),
     whole |-> IsWhole(t), pre |-> cur.pre,
     quiet |-> cur.quiet, pushed |-> (cur.pre # {} /\ extN # cur.se0)]

\* the call in progress, with what its current-layer query obtained noted
\* when the send that returns text t is that query: the name read from the
\* reply, and whether the reply is the daemon's answer to this very query
Noted(t) ==
    IF cur.stage # "query" THEN cur
    ELSE [cur EXCEPT !.qname = GetField(ParseJsonResponse(t), "CurrentLayerName"),
                     !.qown = IsWhole(t) /\ LineOf(t).re = nreq
                              /\ LineOf(t).body.k = "CurrentLayerName"]

\* the wrapper call returns res
Return(t, res) ==
    /\ hist' = Append(hist, [op |-> cur.op, arg |-> cur.arg, res |-> res,
                             wrote |-> cur.wrote, qown |-> Noted(t).qown,
                             qname |-> Noted(t).qname, l0 |-> cur.l0,
                             e0 |-> cur.e0, e1 |-> extN])
    /\ pc' = "idle"
    /\ cur' = NoCall

\* AttributeError: an exception nothing catches ends the call and the process
Raise ==
    /\ pc' = "attrerror"
    /\ UNCHANGED << cur, hist >>

\* the next send of the call in progress starts
NextSend(t, req, stage) ==
    /\ cur' = SendEntry([Noted(t) EXCEPT !.pending = NoRequest], req, stage)
    /\ pc' = "flush"
    /\ UNCHANGED hist

\* (mutant) change_layer compares the wrong way round
SendReturns_Inverted(t, out) ==
    /\ lastSend' = SendRecord(t, out)
    /\ LET data == ParseJsonResponse(t)
           name == GetField(data, "CurrentLayerName")
       IN CASE cur.stage = "prime" ->
                 IF name = AttributeError THEN Raise
                 ELSE NextSend(t, cur.pending, FirstStage(cur.op))
            [] cur.stage = "query" ->
                 IF name = AttributeError THEN Raise
                 ELSE IF cur.arg # name THEN Return(t, "False")
                 ELSE NextSend(t, ReqChangeLayer(cur.arg), "main")
            [] cur.stage = "main" ->
                 IF WrapperResult(cur.op, data) = AttributeError THEN Raise
                 ELSE Return(t, WrapperResult(cur.op, data))

\* (mutant) change_layer sends ChangeLayer whatever the current layer is
SendReturns_Always(t, out) ==
    /\ lastSend' = SendRecord(t, out)
    /\ LET data == ParseJsonResponse(t)
           name == GetField(data, "CurrentLayerName")
       IN CASE cur.stage = "prime" ->
                 IF name = AttributeError THEN Raise
                 ELSE NextSend(t, cur.pending, FirstStage(cur.op))
            [] cur.stage = "query" ->
                 IF name = AttributeError THEN Raise
                 ELSE NextSend(t, ReqChangeLayer(cur.arg), "main")
            [] cur.stage = "main" ->
                 IF WrapperResult(cur.op, data) = AttributeError THEN Raise
                 ELSE Return(t, WrapperResult(cur.op, data))

\* send returns text t to its caller, which goes on:
\*   prime  _connect's get_current_layer_name, then the send that connected
\*   query  change_layer's get_current_layer_name and its comparison
\*   main   the wrapper's own request
SendReturns(t, out) ==
    /\ lastSend' = SendRecord(t, out)
    /\ LET data == ParseJsonResponse(t)
           name == GetField(data, "CurrentLayerName")
       IN CASE cur.stage = "prime" ->
                 IF name = AttributeError THEN Raise
                 ELSE NextSend(t, cur.pending, FirstStage(cur.op))
            [] cur.stage = "query" ->
                 IF name = AttributeError THEN Raise
                 ELSE IF cur.arg = name THEN Return(t, "False")
                 ELSE NextSend(t, ReqChangeLayer(cur.arg), "main")
            [] cur.stage = "main" ->
                 IF WrapperResult(cur.op, data) = AttributeError THEN Raise
                 ELSE Return(t, WrapperResult(cur.op, data))

\* send's receive loop, one turn: recv returns what has arrived; with a
\* newline in the buffer the loop ends and the first non-blank line is returned
RecvData ==
    /\ pc = "recv"
    /\ sockbuf # << >>
    /\ sockbuf' = Rest
    /\ LET buf == buffer \o Chunk
       IN IF HasNL(buf)
          THEN /\ buffer' = Last(Split(buf))
               /\ LET t == FirstResponse(Front(Split(buf)))
                  IN SendReturns(t, IF t = << >> THEN "blank" ELSE "line")
          ELSE /\ buffer' = buf
               /\ UNCHANGED << pc, cur, lastSend, hist >>
    /\ UNCHANGED << connected, nreq, layer, emitted, bad, extN,
                    inflight, peerClosed >>
    /\ UNCHANGED << rvars, hvars, cvars, mvars >>

\* (mutant) a response timeout is treated as a fatal error
RecvTimeout_Fatal ==
    /\ pc = "recv"
    /\ sockbuf = << >>
    /\ ~AtEOF
    /\ lastSend' = SendRecord(<< >>, "timeout")
    /\ pc' = "fatal"
    /\ UNCHANGED << connected, buffer, cur, nreq, hist, dvars >>
    /\ UNCHANGED << rvars, hvars, cvars, mvars >>

\* send: no complete line within the wait (socket.timeout): None
RecvTimeout ==
    /\ pc = "recv"
    /\ sockbuf = << >>
    /\ ~AtEOF
    /\ SendReturns(<< >>, "timeout")
    /\ UNCHANGED << connected, buffer, nreq, dvars >>
    /\ UNCHANGED << rvars, hvars, cvars, mvars >>

\* send: recv returns b"", the loop breaks with no newline in the buffer
RecvEOF ==
    /\ pc = "recv"
    /\ AtEOF
    /\ buffer' = Last(Split(buffer))
    /\ SendReturns(FirstResponse(Front(Split(buffer))), "closed")
    /\ UNCHANGED << connected, nreq, dvars >>
    /\ UNCHANGED << rvars, hvars, cvars, mvars >>

\* ------------------------------------------------------------ the daemon

\* somebody else changes the layer; the daemon notifies its clients
DaemonPush ==
    /\ ~peerClosed
    /\ extN < MaxExt
    /\ extN' = extN + 1
    /\ \E l \in Layers \ {layer} :
         /\ layer' = l
         /\ IF connected THEN Emit(-(extN + 1), Body("LayerChange", l))
            ELSE UNCHANGED << emitted, inflight >>
    /\ UNCHANGED << kvars, bad, sockbuf, peerClosed >>
    /\ UNCHANGED << rvars, hvars, cvars, mvars >>

\* the network delivers some of what the daemon has emitted
Deliver ==
    /\ inflight # << >>
    /\ \E n \in 1..Len(inflight) :
         /\ sockbuf' = sockbuf \o SubSeq(inflight, 1, n)
         /\ inflight' = SubSeq(inflight, n + 1, Len(inflight))
    /\ UNCHANGED << kvars, layer, emitted, bad, extN, peerClosed >>
    /\ UNCHANGED << rvars, hvars, cvars, mvars >>

\* the daemon drops the connection
DaemonClose ==
    /\ connected
    /\ ~peerClosed
    /\ peerClosed' = TRUE
    /\ UNCHANGED << kvars, layer, emitted, bad, extN, inflight, sockbuf >>
    /\ UNCHANGED << rvars, hvars, cvars, mvars >>

Next ==
    \/ \E op \in Ops : \E arg \in ArgsOf(op) : Call(op, arg)
    \/ FlushRecv
    \/ FlushTimeout
    \/ FlushEOF
    \/ RecvData
    \/ RecvTimeout
    \/ RecvEOF
    \/ DaemonPush
    \/ Deliver
    \/ DaemonClose

Spec == Init /\ [][Next]_vars

\* ------------------------------------------------------ Config.detect_rule

\* Strings are sequences of characters. A rule's class and title are taken
\* from PatChars ("." is the regular-expression metacharacter), a window's
\* from WinChars.
PatChars == {"a", "."}
WinChars == {"a", "A", "\n"}

RECURSIVE Strings(_, _)
Strings(chars, n) ==
    IF n = 0 THEN {<< >>}
    ELSE Strings(chars, n - 1)
         \cup {Append(t, c) : t \in Strings(chars, n - 1), c \in chars}

Star == << "*" >>

\* a key of a rule: present with a string value, or not there
Absent == [set |-> FALSE, t |-> "str", s |-> << >>]
Present(str) == [set |-> TRUE, t |-> "str", s |-> str]
\* a key set to false or to null (t), which validation lets through
Switched(t) == [set |-> TRUE, t |-> t, s |-> << >>]
FieldValues ==
    {Absent, Present(Star), Switched("false"), Switched("null")}
    \cup {Present(t) : t \in Strings(PatChars, MaxPat) \ {<< >>}}
Rules == [class : FieldValues, title : FieldValues]
RuleLists == UNION {[1..n -> Rules] : n \in 0..MaxRules}
Windows == [cls : Strings(WinChars, MaxLen) \cup {Star},
            title : Strings(WinChars, MaxLen) \cup {Star}]

\* rule.get(key, "*"): the value of the key, "*" for a key the rule lacks
Get(field) == IF field.set THEN field ELSE Present(Star)

\* a value as an f-string writes it: str(False) is "False", str(None) "None"
Format(value) ==
    CASE value.t = "str" -> value.s
      [] value.t = "false" -> << "F", "a", "l", "s", "e" >>
      [] value.t = "null" -> << "N", "o", "n", "e" >>

\* (mutant) the pattern loses its leading ".*"
ToPattern_NoLead(value) ==
    IF value # Present(Star) THEN Format(value) \o << ".", "*" >>
    ELSE << ".", "*" >>

\* to_pattern: f".*{value}.*" if value != "*" else ".*"
ToPattern(value) ==
    IF value # Present(Star)
    THEN << ".", "*" >> \o Format(value) \o << ".", "*" >>
    ELSE << ".", "*" >>

\* one character against one atom of a regular expression: "." is any
\* character but a newline, every other atom here is the character itself
AtomMatches(atom, c) == IF atom = "." THEN c # "\n" ELSE c = atom

\* the regular-expression engine on the patterns above (atoms, and atoms
\* under "*"): does pattern p from its i-th character on match subject t
\* with the first k characters of t already consumed
RECURSIVE MatchHere(_, _, _, _)
MatchHere(p, i, t, k) ==
    IF i > Len(p) THEN TRUE
    ELSE IF i < Len(p) /\ p[i + 1] = "*"
         THEN \/ MatchHere(p, i + 2, t, k)
              \/ /\ k < Len(t)
                 /\ AtomMatches(p[i], t[k + 1])
                 /\ MatchHere(p, i, t, k + 1)
         ELSE /\ k < Len(t)
              /\ AtomMatches(p[i], t[k + 1])
              /\ MatchHere(p, i + 1, t, k + 1)

\* (mutant) the whole subject must match, as with re.fullmatch
RECURSIVE FullHere(_, _, _, _)
FullHere(p, i, t, k) ==
    IF i > Len(p) THEN k = Len(t)
    ELSE IF i < Len(p) /\ p[i + 1] = "*"
         THEN \/ FullHere(p, i + 2, t, k)
              \/ /\ k < Len(t)
                 /\ AtomMatches(p[i], t[k + 1])
                 /\ FullHere(p, i, t, k + 1)
         ELSE /\ k < Len(t)
              /\ AtomMatches(p[i], t[k + 1])
              /\ FullHere(p, i + 1, t, k + 1)
ReMatch_Full(p, t) == FullHere(p, 1, t, 0)

\* re.match(pattern, string): a match that starts at the start of the string
ReMatch(p, t) == MatchHere(p, 1, t, 0)

\* the test detect_rule makes of one rule
RuleMatches(rule, w) ==
    /\ ReMatch(ToPattern(Get(rule.class)), w.cls)
    /\ ReMatch(ToPattern(Get(rule.title)), w.title)

\* (mutant) the scan goes on after a match, so that the last match wins
RECURSIVE Scan_LastWins(_, _, _)
Scan_LastWins(rs, w, i) ==
    IF i > Len(rs) THEN 0
    ELSE IF Scan_LastWins(rs, w, i + 1) # 0 THEN Scan_LastWins(rs, w, i + 1)
    ELSE IF RuleMatches(rs[i], w) THEN i
    ELSE 0

\* the loop of detect_rule from rule i on: the first rule that matches
RECURSIVE Scan(_, _, _)
Scan(rs, w, i) ==
    IF i > Len(rs) THEN 0
    ELSE IF RuleMatches(rs[i], w) THEN i
    ELSE Scan(rs, w, i + 1)

\* a configuration and a focused window, beside a client not yet used
RulesInit ==
    /\ KanataInit
    /\ FocusOff
    /\ ValidateOff
    /\ MainOff
    /\ rules \in RuleLists
    /\ win \in Windows
    /\ found = 0
    /\ rpc = "start"

\* Config.detect_rule(win_info)
DetectRule ==
    /\ rpc = "start"
    /\ found' = Scan(rules, win, 1)
    /\ rpc' = "done"
    /\ UNCHANGED << rules, win, kvars, dvars, hvars, cvars, mvars >>

SpecRules == RulesInit /\ [][DetectRule]_vars

\* ------------------------------------------------------------ JSON values

\* A value of the configuration file as json.load returns it. A string (s) is
\* a sequence of pieces, a piece being one character or a run of characters
\* that are not white space; a number is n; an array (a) is a sequence of
\* elements, each a string or a number. Missing is a key the rule does not
\* have, for which rule.get(key) returns None.
Elem(t, s, n) == [t |-> t, s |-> s, n |-> n]
EStr(str) == Elem("str", str, 0)
ENum(n) == Elem("num", << >>, n)
Val(t, s, n, a) == [t |-> t, s |-> s, n |-> n, a |-> a]
Missing == Val("missing", << >>, 0, << >>)
JNull == Val("null", << >>, 0, << >>)
JFalse == Val("false", << >>, 0, << >>)
JTrue == Val("true", << >>, 0, << >>)
JNum(n) == Val("num", << >>, n, << >>)
JStr(str) == Val("str", str, 0, << >>)
JList(a) == Val("list", << >>, 0, a)

\* bool(value), as in `if value:`
Truthy(v) ==
    CASE v.t \in {"missing", "null", "false"} -> FALSE
      [] v.t = "true" -> TRUE
      [] v.t = "num" -> v.n # 0
      [] v.t = "str" -> v.s # << >>
      [] v.t = "list" -> v.a # << >>

\* the name of a layer as a JSON string
LayerText(l) == JStr(<< l >>)

\* ---------------------------------------------------- Config._validate

\* white space, to str.strip
IsWhite(c) == c \in {" ", "\t", "\n"}

\* utils.is_blank: not s.strip()
IsBlank(str) == \A i \in 1..Len(str) : IsWhite(str[i])

\* str.upper and str.lower of one character, on the letters of the strings
\* that stand for actions here
UpperOf(c) ==
    CASE c = "t" -> "T" [] c = "a" -> "A" [] c = "p" -> "P" [] OTHER -> c
LowerOf(c) ==
    CASE c = "T" -> "t" [] c = "A" -> "a" [] c = "P" -> "p" [] OTHER -> c

\* str.capitalize: the first character upper case, the rest lower case
Capitalize(str) ==
    [i \in 1..Len(str) |-> IF i = 1 THEN UpperOf(str[i]) ELSE LowerOf(str[i])]

\* valid_actions
ValidActions == {<< "P", "r", "e", "s", "s" >>,
                 << "R", "e", "l", "e", "a", "s", "e" >>,
                 << "T", "a", "p" >>,
                 << "T", "o", "g", "g", "l", "e" >>}

\* a check that lets the value through
Pass == Outcome("pass", 0, "")

\* utils.validate_fake_key(fake_key, rule_no) for a list of strings; rule_no
\* 0 stands for None
ValidateFakeKey(fk, no) ==
    IF Len(fk) # 2 THEN Outcome("ValueError", 0, "name, action = fake_key")
    ELSE IF IsBlank(fk[1].s) THEN Outcome("fatal", 0, "fake key name blank")
    ELSE IF Capitalize(fk[2].s) \notin ValidActions
         THEN Outcome("fatal", no, "fake_key action")
    ELSE Pass

\* A rule as json.load returns it: t says what kind of JSON value it is; an
\* object has a value or Missing for each of the six keys of a rule, and
\* `other` for a key that is none of them.
RuleKeys == {"class", "title", "layer", "cmd", "fake_key", "set_mouse", "other"}
EmptyRule == [t |-> "obj", class |-> Missing, title |-> Missing,
              layer |-> Missing, cmd |-> Missing, fake_key |-> Missing,
              set_mouse |-> Missing, other |-> Missing]
NonObject(t) == [EmptyRule EXCEPT !.t = t]

\* the values a key takes in the configurations
KeyValues(key) ==
    CASE key \in {"class", "title", "cmd"} ->
           {JNull, JFalse, JNum(0), JStr(<< >>), JStr(<< " " >>), JStr(<< "a" >>)}
      [] key = "layer" ->
           {JNull, JFalse, JNum(0), JStr(<< >>), JStr(<< " " >>),
            LayerText("base"), LayerText("ghost")}
      [] key = "fake_key" ->
           {JFalse, JNum(1), JList(<< >>),
            JList(<< EStr(<< "k" >>), EStr(<< "t", "a", "p" >>) >>),
            JList(<< EStr(<< "k" >>), EStr(<< "T", "A", "P" >>) >>),
            JList(<< EStr(<< "k" >>), EStr(<< "x" >>) >>),
            JList(<< EStr(<< " " >>), EStr(<< "T", "a", "p" >>) >>),
            JList(<< EStr(<< "k" >>) >>),
            JList(<< EStr(<< "k" >>), EStr(<< "T", "a", "p" >>), EStr(<< "k" >>) >>),
            JList(<< EStr(<< "k" >>), ENum(1) >>)}
      [] key = "set_mouse" ->
           {JFalse, JNum(0), JNum(1), JList(<< >>),
            JList(<< ENum(1), ENum(2) >>),
            JList(<< ENum(1) >>),
            JList(<< ENum(1), ENum(2), ENum(3) >>),
            JList(<< ENum(1), EStr(<< "a" >>) >>)}
      [] key = "other" -> {JNum(1)}

\* how many keys a rule has (a rule that is no object counts as one)
KeyCount(rule) ==
    IF rule.t # "obj" THEN 1
    ELSE Cardinality({key \in RuleKeys : rule[key] # Missing})

\* the objects of rs with one more key
AddKey(rs) ==
    UNION {{[r EXCEPT ![key] = v] :
              r \in {x \in rs : x.t = "obj" /\ x[key] = Missing},
              v \in KeyValues(key)} :
           key \in RuleKeys}

\* the rules that count n keys
RECURSIVE RulesWith(_)
RulesWith(n) ==
    IF n = 0 THEN {EmptyRule}
    ELSE AddKey(RulesWith(n - 1))
         \cup (IF n = 1 THEN {NonObject(t) : t \in {"str", "num", "list", "null"}}
               ELSE {})

\* the configurations of len rules that count at most n keys together
RECURSIVE ConfigsOf(_, _)
ConfigsOf(len, n) ==
    IF len = 0 THEN {<< >>}
    ELSE UNION {{Append(c, r) : c \in ConfigsOf(len - 1, n - k),
                                r \in RulesWith(k)} : k \in 0..n}
Configs == UNION {ConfigsOf(len, MaxKeys) : len \in 0..MaxRules}

\* what get_layer_names returns to _validate: the names in the daemon's
\* LayerNames reply, None (here: no names) when the response is anything
\* else or none, AttributeError when the response is JSON but no object
LayerNamesResults ==
    {WrapperResult("get_layer_names", b) :
        b \in {Answer(ReqLayerNames, layer), EmptyObject, Body("array", "")}}
NamesOf(res) == IF res = "names" THEN {<< l >> : l \in Layers} ELSE {}

\* (mutant) every falsy value disables the key
Disabled_Falsy(v) == ~Truthy(v)

\* value is False or value is None
Disabled(v) == v.t \in {"missing", "null", "false"}

\* the loop over "class", "title", "layer", "cmd" from the k-th key on
StringKeys == << "class", "title", "layer", "cmd" >>
RECURSIVE CheckStrings(_, _, _)
CheckStrings(rule, no, k) ==
    IF k > Len(StringKeys) THEN Pass
    ELSE LET v == rule[StringKeys[k]]
         IN IF Disabled(v) THEN CheckStrings(rule, no, k + 1)
            ELSE IF v.t # "str" \/ IsBlank(v.s)
                 THEN Outcome("fatal", no, StringKeys[k])
            ELSE CheckStrings(rule, no, k + 1)

\* the check of rule["fake_key"]
CheckFakeKey(rule, no) ==
    LET fk == rule.fake_key
    IN IF ~Truthy(fk) THEN Pass
       ELSE IF fk.t # "list" \/ \E i \in 1..Len(fk.a) : fk.a[i].t # "str"
            THEN Outcome("fatal", no, "fake_key")
       ELSE ValidateFakeKey(fk.a, no)

\* the check of rule["set_mouse"]
CheckSetMouse(rule, no) ==
    LET sm == rule.set_mouse
    IN IF Truthy(sm) /\ (\/ sm.t # "list"
                         \/ \E i \in 1..Len(sm.a) : sm.a[i].t # "num")
       THEN Outcome("fatal", no, "set_mouse")
       ELSE Pass

\* the check of rule["layer"] against kanata_layers; `layer not in None`
\* raises TypeError
CheckLayer(rule, no, names) ==
    IF ~Truthy(rule.layer) THEN Pass
    ELSE IF names = {} THEN Outcome("TypeError", 0, "layer not in None")
    ELSE IF rule.layer.s \notin names THEN Outcome("fatal", no, "layer")
    ELSE Pass

\* the first of the outcomes that is not Pass
RECURSIVE FirstFailure(_)
FirstFailure(outs) ==
    IF outs = << >> THEN Pass
    ELSE IF outs[1] # Pass THEN outs[1]
    ELSE FirstFailure(Tail(outs))

\* the body of the loop of _validate for rule number no
CheckRule(rule, no, names) ==
    IF rule.t # "obj" THEN Outcome("AttributeError", 0, "rule.get")
    ELSE FirstFailure(<<
           IF rule.other # Missing
           THEN Outcome("fatal", no, "unexpected keys") ELSE Pass,
           CheckStrings(rule, no, 1),
           IF KeyCount(rule) = 0
           THEN Outcome("fatal", no, "non-empty object") ELSE Pass,
           CheckFakeKey(rule, no),
           CheckSetMouse(rule, no),
           CheckLayer(rule, no, names) >>)

\* Config(path, kanata) is about to validate the rules it has loaded
ValidateInit ==
    /\ KanataInit
    /\ FocusOff
    /\ MainOff
    /\ rules \in Configs
    /\ win = [cls |-> << >>, title |-> << >>]
    /\ found = 0
    /\ rpc = "off"
    /\ known = {}
    /\ vi = 0
    /\ vpc = "start"
    /\ vres = NoOutcome

\* _validate up to the loop: the configuration is an array; the layer names
\* are asked of the daemon
ValidateStart ==
    /\ vpc = "start"
    /\ \E res \in LayerNamesResults :
         IF res = AttributeError
         THEN /\ vpc' = "ended"
              /\ vres' = Outcome("AttributeError", 0, "get_layer_names")
              /\ UNCHANGED << known, vi >>
         ELSE /\ known' = NamesOf(res)
              /\ IF rules = << >>
                 THEN /\ vpc' = "ended"
                      /\ vres' = Outcome("ok", 0, "")
                      /\ UNCHANGED vi
                 ELSE /\ vpc' = "loop"
                      /\ vi' = 1
                      /\ UNCHANGED vres
    /\ UNCHANGED << kvars, dvars, rvars, hvars, mvars >>

\* one turn of the loop of _validate; after the last rule the configuration
\* is valid
ValidateRule ==
    /\ vpc = "loop"
    /\ LET out == CheckRule(rules[vi], vi, known)
       IN IF out # Pass
          THEN /\ vpc' = "ended"
               /\ vres' = out
               /\ UNCHANGED vi
          ELSE IF vi = Len(rules)
               THEN /\ vpc' = "ended"
                    /\ vres' = Outcome("ok", 0, "")
                    /\ UNCHANGED vi
               ELSE /\ vi' = vi + 1
                    /\ UNCHANGED << vpc, vres >>
    /\ UNCHANGED << known, kvars, dvars, rvars, hvars, mvars >>

NextValidate == ValidateStart \/ ValidateRule

SpecValidate == ValidateInit /\ [][NextValidate]_vars

\* ------------------------------------------- WMBaseListener.on_focus_event

\* The rules of a configuration that validation has accepted: a class, a
\* layer or none, and the side effects or none; set_mouse with two numbers or
\* with one (validation does not look at the length).
FocusRules ==
    [class : {Present(<< "a" >>), Present(<< "b" >>)},
     title : {Absent},
     layer : {Missing} \cup {LayerText(l) : l \in Layers},
     cmd : {Missing, JStr(<< "cmd" >>)},
     fake_key : {Missing, JList(<< EStr(<< "k" >>), EStr(<< "T", "a", "p" >>) >>)},
     set_mouse : {Missing, JList(<< ENum(1), ENum(2) >>), JList(<< ENum(1) >>)}]
FocusRuleLists == UNION {[1..n -> FocusRules] : n \in 0..MaxRules}

\* the windows the window manager reports: two of one class, one of a second
\* class, and one of a class no rule names
Window(cls, title) == [cls |-> cls, title |-> title]
FocusWindows == {Window(<< "a" >>, << "t" >>), Window(<< "a" >>, << "u" >>),
                 Window(<< "b" >>, << "t" >>), Window(<< "c" >>, << "t" >>)}

\* the handler is installed: the configuration is loaded, the client has
\* connected (validation asked for the layer names), nothing has been seen
FocusInit ==
    /\ connected = TRUE
    /\ buffer = << >>
    /\ pc = "idle"
    /\ cur = NoCall
    /\ nreq = 0
    /\ lastSend = NoSend
    /\ hist = << >>
    /\ layer = "base"
    /\ emitted = 0
    /\ bad = 0
    /\ extN = 0
    /\ inflight = << >>
    /\ sockbuf = << >>
    /\ peerClosed = FALSE
    /\ rules \in FocusRuleLists
    /\ win = NoWin
    /\ found = 0
    /\ rpc = "off"
    /\ last = NoWin
    /\ fpc = "idle"
    /\ ev = NoEvent
    /\ prevEv = NoEvent
    /\ nev = 0
    /\ cmds = << >>
    /\ ValidateOff
    /\ MainOff

\* (mutant) the handler's first test looks at the title only
SameAsLast_TitleOnly(w) == ~(w.title # last.title)

\* the negation of the handler's first test: the notification names the
\* window that was seen last
SameAsLast(w) == ~(w.title # last.title \/ w.cls # last.cls)

\* (mutant) last-seen is never set
LastAfter_Never(w, m) == last

\* (mutant) last-seen is set whether or not a rule was found
LastAfter_Always(w, m) == w

\* (mutant) last-seen is set only when the rule found has a layer
LastAfter_Layered(w, m) ==
    IF m # 0 /\ Truthy(rules[m].layer) THEN w ELSE last

\* last-seen after the lookup found rule m (0: None) for window w
LastAfter(w, m) == IF m # 0 THEN w ELSE last

\* the layer wanted once window w has had focus: that of the first rule
\* matching w when that rule has a layer, else what was wanted before
Wanted(w) ==
    LET m == Scan(rules, w, 1)
    IN IF m # 0 /\ Truthy(rules[m].layer) THEN rules[m].layer.s[1] ELSE ev.want

\* a focus notification: on_focus_event up to its call of change_layer
FocusEvent(w) ==
    /\ fpc = "idle"
    /\ nev < MaxEvents
    /\ nev' = nev + 1
    /\ prevEv' = ev
    /\ win' = w
    /\ IF SameAsLast(w)
       THEN /\ ev' = [NoEvent EXCEPT !.win = w, !.last0 = last,
                                     !.want = Wanted(w), !.told = ev.told]
            /\ UNCHANGED << last, fpc, found >>
       ELSE LET m == Scan(rules, w, 1)
            IN /\ found' = m
               /\ last' = LastAfter(w, m)
               /\ ev' = [NoEvent EXCEPT !.win = w, !.last0 = last,
                                        !.looked = 1, !.rule = m,
                                        !.want = Wanted(w), !.told = ev.told]
               /\ fpc' = IF m # 0 /\ Truthy(rules[m].layer) THEN "change"
                         ELSE "idle"
    /\ UNCHANGED << rules, rpc, cmds, kvars, dvars, cvars, mvars >>

\* (mutant) the fake key is acted on before the command is run
Order_FakeKeyFirst == << "fake_key", "cmd", "set_mouse" >>

\* the order of the side effects in the handler
Order == << "cmd", "fake_key", "set_mouse" >>

\* the stage after the k-th side effect
StageAfter(k) == IF k < Len(Order) THEN Order[k + 1] ELSE "idle"

\* position of a stage in the handler
StageNo(stage) == CHOOSE k \in 1..Len(Order) : Order[k] = stage

\* where the handler goes on after change_layer returned ok
AfterChange(ok) == IF ok THEN Order[1] ELSE "idle"

\* what the current-layer query of change_layer may obtain: the name of a
\* layer (the daemon's answer, or a line that answers an earlier request), or
\* nothing in time
QueryResults == {LayerText(l) : l \in Layers} \cup {JNull}

\* (mutant) last-seen is taken back when change_layer returned False
ChangeLayerCall_TakeBack ==
    /\ fpc = "change"
    /\ LET target == rules[ev.rule].layer
       IN \E got \in QueryResults :
            LET ok == got # target
                n == IF ok THEN 2 ELSE 1
            IN /\ ev' = [ev EXCEPT !.tried = @ + 1, !.ok = ok, !.sent = @ + n,
                                   !.told = @ /\ got = LayerText(layer)]
               /\ nreq' = nreq + n
               /\ layer' = IF ok THEN target.s[1] ELSE layer
               /\ fpc' = AfterChange(ok)
               /\ last' = IF ok THEN last ELSE ev.last0
    /\ UNCHANGED << connected, buffer, pc, cur, lastSend, hist >>
    /\ UNCHANGED << emitted, bad, extN, inflight, sockbuf, peerClosed >>
    /\ UNCHANGED << rvars, prevEv, nev, cmds, cvars, mvars >>

\* ok = kanata.change_layer(rule_layer): the query is written, and ChangeLayer
\* when the name obtained is not the rule's layer; or the call ends in an
\* exception (OSError from sendall, AttributeError from the reply)
ChangeLayerCall ==
    /\ fpc = "change"
    /\ LET target == rules[ev.rule].layer
       IN \/ \E got \in QueryResults :
               LET ok == got # target
                   n == IF ok THEN 2 ELSE 1
               IN /\ ev' = [ev EXCEPT !.tried = @ + 1, !.ok = ok, !.sent = @ + n,
                                      !.told = @ /\ got = LayerText(layer)]
                  /\ nreq' = nreq + n
                  /\ layer' = IF ok THEN target.s[1] ELSE layer
                  /\ fpc' = AfterChange(ok)
          \/ /\ ev' = [ev EXCEPT !.tried = @ + 1, !.told = FALSE]
             /\ fpc' = "crashed"
             /\ UNCHANGED << nreq, layer >>
    /\ UNCHANGED << connected, buffer, pc, cur, lastSend, hist >>
    /\ UNCHANGED << emitted, bad, extN, inflight, sockbuf, peerClosed >>
    /\ UNCHANGED << rvars, last, prevEv, nev, cmds, cvars, mvars >>

\* if rule_cmd: utils.run_cmd_bg(rule_cmd): a thread is started and runs the
\* command; what becomes of the command does not come back to the handler
RunCmd ==
    /\ fpc = "cmd"
    /\ IF Truthy(rules[ev.rule].cmd)
       THEN /\ ev' = [ev EXCEPT !.fx = Append(@, "cmd")]
            /\ cmds' = Append(cmds, "running")
       ELSE UNCHANGED << ev, cmds >>
    /\ fpc' = StageAfter(StageNo("cmd"))
    /\ UNCHANGED << kvars, dvars, rvars, last, prevEv, nev, cvars, mvars >>

\* _run_cmd in its thread: subprocess.run returns, the command has exited
\* with status 0; the thread ends
CmdExits ==
    /\ \E i \in 1..Len(cmds) :
         /\ cmds[i] = "running"
         /\ cmds' = [cmds EXCEPT ![i] = "done"]
    /\ UNCHANGED << kvars, dvars, rvars, last, fpc, ev, prevEv, nev, cvars,
                    mvars >>

\* (mutant) fatal in the command's thread ends the process
CmdFails_Exits ==
    /\ \E i \in 1..Len(cmds) :
         /\ cmds[i] = "running"
         /\ cmds' = [cmds EXCEPT ![i] = "failed"]
    /\ fpc' = "crashed"
    /\ UNCHANGED << kvars, dvars, rvars, last, ev, prevEv, nev, cvars, mvars >>

\* _run_cmd in its thread: CalledProcessError, the command has exited with
\* another status; fatal logs the error and raises SystemExit, which ends
\* the thread it is raised in and nothing else
CmdFails ==
    /\ \E i \in 1..Len(cmds) :
         /\ cmds[i] = "running"
         /\ cmds' = [cmds EXCEPT ![i] = "failed"]
    /\ UNCHANGED << kvars, dvars, rvars, last, fpc, ev, prevEv, nev, cvars,
                    mvars >>

\* if fake_key: kanata.act_on_fake_key(fake_key): ActOnFakeKey is written (the
\* reply is parsed and dropped), or sendall raises
ActOnFakeKey ==
    /\ fpc = "fake_key"
    /\ IF Truthy(rules[ev.rule].fake_key)
       THEN \/ /\ ev' = [ev EXCEPT !.fx = Append(@, "fake_key"), !.sent = @ + 1]
               /\ nreq' = nreq + 1
               /\ fpc' = StageAfter(StageNo("fake_key"))
            \/ /\ fpc' = "crashed"
               /\ UNCHANGED << ev, nreq >>
       ELSE /\ fpc' = StageAfter(StageNo("fake_key"))
            /\ UNCHANGED << ev, nreq >>
    /\ UNCHANGED << connected, buffer, pc, cur, lastSend, hist >>
    /\ UNCHANGED << dvars, rvars, last, prevEv, nev, cmds, cvars, mvars >>

\* if set_mouse: kanata.set_mouse(set_mouse): x, y = pos raises ValueError
\* unless pos has two elements; SetMouse is written, or sendall raises
SetMouse ==
    /\ fpc = "set_mouse"
    /\ LET pos == rules[ev.rule].set_mouse
       IN IF Truthy(pos)
          THEN \/ /\ Len(pos.a) = 2
                  /\ ev' = [ev EXCEPT !.fx = Append(@, "set_mouse"),
                                      !.sent = @ + 1]
                  /\ nreq' = nreq + 1
                  /\ fpc' = StageAfter(StageNo("set_mouse"))
               \/ /\ fpc' = "crashed"
                  /\ UNCHANGED << ev, nreq >>
          ELSE /\ fpc' = StageAfter(StageNo("set_mouse"))
               /\ UNCHANGED << ev, nreq >>
    /\ UNCHANGED << connected, buffer, pc, cur, lastSend, hist >>
    /\ UNCHANGED << dvars, rvars, last, prevEv, nev, cmds, cvars, mvars >>

NextFocus ==
    \/ \E w \in FocusWindows : FocusEvent(w)
    \/ ChangeLayerCall
    \/ RunCmd
    \/ ActOnFakeKey
    \/ SetMouse
    \/ CmdExits
    \/ CmdFails

SpecFocus == FocusInit /\ [][NextFocus]_vars

\* --------------------------------------------------- utils.validate_port

\* The text given to -p is a sequence of characters. Besides the ASCII digits
\* there are "ar8", ARABIC-INDIC DIGIT EIGHT, a decimal digit to str.isdigit,
\* int and \d alike, and "sup2", SUPERSCRIPT TWO, a digit to str.isdigit that
\* int rejects and \d does not match.
Ascii == << "0", "1", "2", "3", "4", "5", "6", "7", "8", "9" >>
IsAscii(c) == \E i \in 1..Len(Ascii) : Ascii[i] = c

\* \d, and the characters int accepts in a numeral
IsDecimal(c) == IsAscii(c) \/ c = "ar8"

\* str.isdigit of one character
IsDigit(c) == IsDecimal(c) \/ c = "sup2"

\* the value of a decimal digit
DigitOf(c) == IF c = "ar8" THEN 8 ELSE (CHOOSE i \in 1..Len(Ascii) : Ascii[i] = c) - 1

\* str.isdigit: not empty and digits only
AllDigits(str) == str # << >> /\ \A i \in 1..Len(str) : IsDigit(str[i])

\* int(str) of a string of decimal digits
RECURSIVE Decimal(_)
Decimal(str) ==
    IF str = << >> THEN 0
    ELSE 10 * Decimal(SubSeq(str, 1, Len(str) - 1)) + DigitOf(str[Len(str)])

\* int(str) of a string str.isdigit accepts: ValueError (-1 here) when a
\* character is no decimal digit
IntOf(str) ==
    IF \A i \in 1..Len(str) : IsDecimal(str[i]) THEN Decimal(str) ELSE -1

\* str.split(sep)
RECURSIVE SplitAt(_, _)
SplitAt(str, sep) ==
    IF \A i \in 1..Len(str) : str[i] # sep THEN << str >>
    ELSE LET i == CHOOSE i \in 1..Len(str) :
                     str[i] = sep /\ \A j \in 1..(i - 1) : str[j] # sep
         IN << SubSeq(str, 1, i - 1) >> \o SplitAt(SubSeq(str, i + 1, Len(str)), sep)

\* _is_valid_port of an int
IsValidPort(n) == 0 < n /\ n <= PortMax

\* _is_valid_port of a string: "yes", "no", or ValueError from int
IsValidPortText(str) ==
    IF ~AllDigits(str) THEN "no"
    ELSE IF IntOf(str) = -1 THEN "ValueError"
    ELSE IF IsValidPort(IntOf(str)) THEN "yes" ELSE "no"

\* \d{1,n}
Digits(str, n) ==
    /\ Len(str) \in 1..n
    /\ \A i \in 1..Len(str) : IsDecimal(str[i])

\* re.fullmatch(r"(\d{1,3}(?:\.\d{1,3}){3}):(\d{1,5})", value): no digit is a
\* dot or a colon, so the text matches in one way or not at all
FullMatch(str) ==
    LET halves == SplitAt(str, ":")
    IN /\ Len(halves) = 2
       /\ Len(SplitAt(halves[1], ".")) = IpParts
       /\ \A i \in 1..IpParts : Digits(SplitAt(halves[1], ".")[i], OctetDigits)
       /\ Digits(halves[2], PortDigits)

\* _is_valid_ip_port (the test for "localhost" is never reached with a text
\* the pattern matched)
IsValidIpPort(str) ==
    /\ FullMatch(str)
    /\ IsValidPort(IntOf(SplitAt(str, ":")[2]))
    /\ \A i \in 1..IpParts :
         LET o == SplitAt(SplitAt(str, ":")[1], ".")[i]
         IN AllDigits(o) /\ 0 <= IntOf(o) /\ IntOf(o) <= OctetMax

\* what validate_port makes of a text: a (host, port) pair, fatal, or
\* ValueError
Address(host, n) == [kind |-> "ok", host |-> host, port |-> n]
Loopback == << "1", "2", "7", ".", "0", ".", "0", ".", "1" >>
ValidatePort(str) ==
    IF IsValidPortText(str) = "ValueError"
    THEN [NoAddress EXCEPT !.kind = "ValueError"]
    ELSE IF IsValidPortText(str) = "yes" THEN Address(Loopback, IntOf(str))
    ELSE IF IsValidIpPort(str)
         THEN Address(SplitAt(str, ":")[1], IntOf(SplitAt(str, ":")[2]))
    ELSE [NoAddress EXCEPT !.kind = "fatal"]

\* the texts validate_port is given: port numerals, addresses of octets,
\* alone and joined by a colon
RECURSIVE Join(_, _)
Join(parts, sep) ==
    IF Len(parts) = 0 THEN << >>
    ELSE IF Len(parts) = 1 THEN parts[1]
    ELSE parts[1] \o << sep >> \o Join(Tail(parts), sep)
PortTexts ==
    {<< >>, << "0" >>, << "1" >>, << "8", "0" >>, << "0", "0", "8", "0" >>,
     << "6", "5", "5", "3", "5" >>, << "6", "5", "5", "3", "6" >>,
     << "9", "9", "9", "9", "9" >>, << "0", "0", "0", "0", "8", "0" >>,
     << "-", "1" >>, << "a", "b" >>, << "sup2" >>, << "ar8", "0" >>}
OctetTexts ==
    {<< >>, << "0" >>, << "1" >>, << "2", "5", "5" >>, << "2", "5", "6" >>,
     << "0", "0", "1" >>, << "0", "2", "5", "5" >>, << "a" >>}
HostTexts ==
    {Join(<< o, << "0" >>, << "0" >>, << "1" >> >>, ".") : o \in OctetTexts}
    \cup {Join(<< << "1", "2", "7" >>, << "0" >>, << "0" >>, o >>, ".") :
            o \in OctetTexts}
    \cup {Join(<< << "1" >>, << "2" >>, << "3" >> >>, "."),
          Join(<< << "1" >>, << "2" >>, << "3" >>, << "4" >>, << "5" >> >>, "."),
          << >>}
PortInputs ==
    PortTexts \cup HostTexts
    \cup {h \o << ":" >> \o t : h \in HostTexts, t \in PortTexts}

\* parse_args is about to convert the text given to -p
PortInit ==
    /\ KanataInit
    /\ RulesOff
    /\ FocusOff
    /\ ValidateOff
    /\ port \in PortInputs
    /\ addr = NoAddress
    /\ mpc = "off"
    /\ args = NoArgs
    /\ handlers = FALSE
    /\ sock = "unconnected"
    /\ sig = NoSignal
    /\ wire = << >>
    /\ printed = << >>
    /\ ndisp = 0

\* utils.validate_port(port)
ParsePort ==
    /\ addr = NoAddress
    /\ addr' = ValidatePort(port)
    /\ UNCHANGED << kvars, dvars, rvars, hvars, cvars, port, mpc, args,
                    handlers, sock, sig, wire, printed, ndisp >>

SpecPort == PortInit /\ [][ParsePort]_vars

\* ------------------------------------------------------------------ main

\* the configuration files main is run with: one rule for a class, with or
\* without a layer (one the daemon defines, one it does not) and fake_key
MainRules ==
    {[EmptyRule EXCEPT !.class = JStr(<< "a" >>), !.layer = l, !.fake_key = f] :
        l \in {Missing, LayerText("base"), LayerText("ghost")},
        f \in {Missing} \cup KeyValues("fake_key")}
MainConfigs == {<< r >> : r \in MainRules}

\* the command lines: no one-off command (listen), --layers, or --fake-key
\* with two strings
CliNames == {<< "k" >>, << " " >>, << >>}
CliActions == {<< "T", "a", "p" >>, << "t", "a", "p" >>, << "T", "A", "P" >>,
               << "x" >>, << >>}
MainArgs ==
    {[cmd |-> c, fake_key |-> << >>] : c \in {"listen", "layers"}}
    \cup {[cmd |-> "fake_key", fake_key |-> << EStr(n), EStr(a) >>] :
            n \in CliNames, a \in CliActions}

\* the signals setup_signals names
Signals == {"SIGINT", "SIGTSTP", "SIGTERM"}

\* how a process ends: main returns; fatal; an exception nothing catches;
\* handle_signal's sys.exit; KeyboardInterrupt and termination by the
\* kernel, the default actions of SIGINT and SIGTERM
Ended == {"returned", "fatal", "raised", "exited", "interrupted", "killed"}

\* a request on the wire; an ActOnFakeKey request carries a name and an action
Written(k) == [k |-> k, name |-> << >>, action |-> << >>]

\* (mutant) act_on_fake_key writes the action as it was given
FakeKeyRequest_Raw(fk) ==
    [k |-> "ActOnFakeKey", name |-> fk[1].s, action |-> fk[2].s]

\* act_on_fake_key's request: the name and action validate_fake_key returned
FakeKeyRequest(fk) ==
    [k |-> "ActOnFakeKey", name |-> fk[1].s, action |-> Capitalize(fk[2].s)]

\* how a failed check ends the process
EndOf(out) == IF out.kind = "fatal" THEN "fatal" ELSE "raised"

\* main has parsed its arguments and made the session and the client
MainInit ==
    /\ KanataInit
    /\ FocusOff
    /\ ValidateOff
    /\ rules \in MainConfigs
    /\ win = [cls |-> << >>, title |-> << >>]
    /\ found = 0
    /\ rpc = "off"
    /\ port = << >>
    /\ addr = NoAddress
    /\ mpc = "config"
    /\ args \in MainArgs
    /\ handlers = FALSE
    /\ sock = "unconnected"
    /\ sig = NoSignal
    /\ wire = << >>
    /\ printed = << >>
    /\ ndisp = 0

\* Config(args.config, kanata): _validate asks for the layer names, and this
\* first send connects (_connect) and writes the priming query; a refused
\* connection is fatal
MainConnect ==
    /\ mpc = "config"
    /\ \E ok \in BOOLEAN :
         IF ok
         THEN /\ connected' = TRUE
              /\ sock' = "open"
              /\ wire' = Append(wire, Written("RequestCurrentLayerName"))
              /\ mpc' = "prime"
         ELSE /\ mpc' = "fatal"
              /\ UNCHANGED << connected, sock, wire >>
    /\ UNCHANGED << buffer, pc, cur, nreq, lastSend, hist, dvars, rvars, hvars,
                    cvars, port, addr, args, handlers, sig, printed, ndisp >>

\* the priming query's send returns and send writes RequestLayerNames
MainPrimed ==
    /\ mpc = "prime"
    /\ wire' = Append(wire, Written("RequestLayerNames"))
    /\ mpc' = "names"
    /\ UNCHANGED << kvars, dvars, rvars, hvars, cvars, port, addr, args,
                    handlers, sock, sig, printed, ndisp >>

\* the loop of _validate over rules i.. with the names the daemon reported
RECURSIVE ValidateFrom(_, _)
ValidateFrom(i, names) ==
    IF i > Len(rules) THEN Outcome("ok", 0, "")
    ELSE IF CheckRule(rules[i], i, names) # Pass
         THEN CheckRule(rules[i], i, names)
    ELSE ValidateFrom(i + 1, names)

\* get_layer_names returns and _validate goes through the rules
MainValidate ==
    /\ mpc = "names"
    /\ \E res \in LayerNamesResults :
         IF res = AttributeError
         THEN /\ vres' = Outcome("AttributeError", 0, "get_layer_names")
              /\ mpc' = "raised"
              /\ UNCHANGED known
         ELSE /\ known' = NamesOf(res)
              /\ vres' = ValidateFrom(1, NamesOf(res))
              /\ mpc' = IF ValidateFrom(1, NamesOf(res)).kind = "ok"
                        THEN "signals"
                        ELSE EndOf(ValidateFrom(1, NamesOf(res)))
    /\ UNCHANGED << kvars, dvars, rvars, hvars, vi, vpc, port, addr, args,
                    handlers, sock, sig, wire, printed, ndisp >>

\* setup_signals(kanata)
SetupSignals ==
    /\ mpc = "signals"
    /\ handlers' = TRUE
    /\ mpc' = "cli"
    /\ UNCHANGED << kvars, dvars, rvars, hvars, cvars, port, addr, args, sock,
                    sig, wire, printed, ndisp >>

\* handle_cli_commands up to the send of its command; with no command main
\* goes on to listen
HandleCli ==
    /\ mpc = "cli"
    /\ CASE args.cmd = "layers" ->
              /\ wire' = Append(wire, Written("RequestLayerNames"))
              /\ mpc' = "command"
         [] args.cmd = "fake_key" ->
              IF ValidateFakeKey(args.fake_key, 0) = Pass
              THEN /\ wire' = Append(wire, FakeKeyRequest(args.fake_key))
                   /\ mpc' = "command"
              ELSE /\ mpc' = EndOf(ValidateFakeKey(args.fake_key, 0))
                   /\ UNCHANGED wire
         [] args.cmd = "listen" ->
              /\ mpc' = "listen"
              /\ UNCHANGED wire
    /\ UNCHANGED << kvars, dvars, rvars, hvars, cvars, port, addr, args,
                    handlers, sock, sig, printed, ndisp >>

\* the command's send returns; --layers prints what get_layer_names returned;
\* main returns
CliReturns ==
    /\ mpc = "command"
    /\ IF args.cmd = "layers"
       THEN \E res \in LayerNamesResults :
              IF res = AttributeError
              THEN mpc' = "raised" /\ UNCHANGED printed
              ELSE mpc' = "returned" /\ printed' = Append(printed, res)
       ELSE mpc' = "returned" /\ UNCHANGED printed
    /\ UNCHANGED << kvars, dvars, rvars, hvars, cvars, port, addr, args,
                    handlers, sock, sig, wire, ndisp >>

\* listen: a notification for a window the rule matches; with a layer in the
\* rule change_layer writes its current-layer query
Notify ==
    /\ mpc = "listen"
    /\ ndisp < MaxDispatch
    /\ ndisp' = ndisp + 1
    /\ IF Truthy(rules[1].layer)
       THEN /\ wire' = Append(wire, Written("RequestCurrentLayerName"))
            /\ mpc' = "dispatch"
       ELSE UNCHANGED << wire, mpc >>
    /\ UNCHANGED << kvars, dvars, rvars, hvars, cvars, port, addr, args,
                    handlers, sock, sig, printed >>

\* the query's send returns: change_layer writes ChangeLayer unless the name
\* obtained is the rule's layer, and the handler acts on the rule's fake key
QueryReturns ==
    /\ mpc = "dispatch"
    /\ \E got \in QueryResults :
         LET r == rules[1]
             w == Append(wire, Written("ChangeLayer"))
         IN IF got = r.layer
            THEN UNCHANGED wire /\ mpc' = "listen"
            ELSE IF ~Truthy(r.fake_key)
            THEN wire' = w /\ mpc' = "listen"
            ELSE IF ValidateFakeKey(r.fake_key.a, 0) = Pass
            THEN wire' = Append(w, FakeKeyRequest(r.fake_key.a)) /\ mpc' = "listen"
            ELSE wire' = w /\ mpc' = EndOf(ValidateFakeKey(r.fake_key.a, 0))
    /\ UNCHANGED << kvars, dvars, rvars, hvars, cvars, port, addr, args,
                    handlers, sock, sig, printed, ndisp >>

\* the process receives signal s. With handle_signal installed: kanata.close()
\* and sys.exit(1). Before setup_signals the signal has its default action:
\* SIGINT raises KeyboardInterrupt, SIGTERM terminates the process, SIGTSTP
\* stops it until it is continued. (The interpreter, on its way out with
\* KeyboardInterrupt, finalises the socket object, which closes it.)
Signal(s) ==
    /\ mpc \notin Ended \cup {"off"}
    /\ sig = NoSignal
    /\ sig' = [name |-> s, open |-> sock = "open", n |-> Len(wire)]
    /\ IF handlers
       THEN sock' = "closed" /\ mpc' = "exited"
       ELSE /\ mpc' = CASE s = "SIGINT" -> "interrupted"
                        [] s = "SIGTERM" -> "killed"
                        [] s = "SIGTSTP" -> mpc
            /\ sock' = IF s = "SIGINT" /\ sock = "open" THEN "closed" ELSE sock
    /\ UNCHANGED << kvars, dvars, rvars, hvars, cvars, port, addr, args,
                    handlers, wire, printed, ndisp >>

NextMain ==
    \/ MainConnect
    \/ MainPrimed
    \/ MainValidate
    \/ SetupSignals
    \/ HandleCli
    \/ CliReturns
    \/ Notify
    \/ QueryReturns
    \/ \E s \in Signals : Signal(s)

SpecMain == MainInit /\ [][NextMain]_vars

\* ------------------------------------------- properties of the client

\* how many ChangeLayer requests a call wrote
Changes(h) == Cardinality({i \in 1..Len(h.wrote) : h.wrote[i] = "ChangeLayer"})

\* two change_layer calls in a row for the same layer, with no layer change
\* made by anybody else from the start of the first to the end of the second
Twice(i) ==
    /\ hist[i].op = "change_layer"
    /\ hist[i + 1].op = "change_layer"
    /\ hist[i].arg = hist[i + 1].arg
    /\ hist[i].e0 = hist[i + 1].e1

\* C1 (as claimed): change_layer(L) twice in a row, the first call having
\* switched and nobody else changing the layer, puts exactly one ChangeLayer
\* request on the wire and the second call returns false, whatever the
\* daemon's timing
C1_Original ==
    \A i \in 1..(Len(hist) - 1) :
        (Twice(i) /\ hist[i].res = "True")
        => /\ hist[i + 1].res = "False"
           /\ Changes(hist[i]) + Changes(hist[i + 1]) = 1

\* C1 (amended): change_layer(L) twice in a row for a layer L the daemon
\* defines, nobody else changing the layer, and each call's current-layer
\* query obtaining the daemon's answer to that query: the second call returns
\* false and writes no ChangeLayer, and the two calls together write exactly
\* one ChangeLayer when L was not active before the first call, none when it
\* was
C1_TwiceAnswered ==
    \A i \in 1..(Len(hist) - 1) :
        (Twice(i) /\ hist[i].arg \in Layers /\ hist[i].qown /\ hist[i + 1].qown)
        => /\ hist[i + 1].res = "False"
           /\ Changes(hist[i + 1]) = 0
           /\ Changes(hist[i]) = (IF hist[i].l0 = hist[i].arg THEN 0 ELSE 1)
           /\ hist[i].res = (IF hist[i].l0 = hist[i].arg THEN "False" ELSE "True")

\* C1 witness: the first call switched, the second was a no-op
C1_Witness ==
    /\ Len(hist) = 2
    /\ Twice(1) /\ hist[1].qown /\ hist[2].qown
    /\ hist[1].res = "True" /\ hist[2].res = "False"
    /\ Changes(hist[1]) = 1

\* C2 (as claimed): a change_layer call for the layer that is active all
\* through the call returns false and writes no request of any kind
C2_Original ==
    \A i \in 1..Len(hist) :
        (hist[i].op = "change_layer" /\ hist[i].l0 = hist[i].arg
         /\ hist[i].e0 = hist[i].e1)
        => (hist[i].res = "False" /\ hist[i].wrote = << >>)

\* C2 (amended): a change_layer call whose current-layer query is answered
\* with the name it was called with returns false and writes no ChangeLayer;
\* what it does write is that RequestCurrentLayerName query, after the priming
\* query when the call is the one that connects
C2_NoChangeWhenNamed ==
    \A i \in 1..Len(hist) :
        (hist[i].op = "change_layer" /\ hist[i].qname = hist[i].arg)
        => /\ hist[i].res = "False"
           /\ hist[i].wrote \in
                {<< "RequestCurrentLayerName" >>,
                 << "RequestCurrentLayerName", "RequestCurrentLayerName" >>}
           /\ Len(hist[i].wrote) = (IF i = 1 THEN 2 ELSE 1)

\* C2 witness: a call that found its layer active, on a connected client
C2_Witness ==
    /\ Len(hist) = 2
    /\ hist[2].op = "change_layer" /\ hist[2].qname = hist[2].arg
    /\ hist[2].res = "False" /\ hist[2].wrote = << "RequestCurrentLayerName" >>

C7_Original ==
    lastSend.out = "line" => lastSend.ret.re \notin 1..(lastSend.idx - 1)

\* C8: outside the loop of _flush_buffer the buffer holds no newline: after
\* _flush_buffer, and after send has returned by whichever path
C8_NoNewlineKept == pc # "flush" => ~HasNL(buffer)

\* C8 witness: send has returned on a timeout, a fragment of a line is kept
C8_Witness ==
    /\ pc = "idle"
    /\ lastSend.out = "timeout"
    /\ buffer # << >>

\* C9: a send that returns for lack of a response within the wait returns
\* None to its caller, which goes on; the process does not end and the client
\* stays connected
C9_TimeoutIsSoft ==
    [][(pc = "recv" /\ lastSend' # lastSend /\ lastSend'.out = "timeout")
       => /\ connected'
          /\ lastSend'.ret = NoLine
          /\ pc' \in {"idle", "flush"}
          /\ pc' = "idle" => /\ Len(hist') = Len(hist) + 1
                             /\ Last(hist').res \in {None, "True"}]_vars

\* C9 witness: the second request has got its answer, the only line the daemon
\* ever emitted, so the send of the first request had timed out
C9_Witness ==
    /\ connected
    /\ emitted = 1
    /\ lastSend.out = "line"
    /\ lastSend.idx = 2
    /\ lastSend.ret.re = 2

\* C10 (as claimed): whatever line the daemon sends, no typed wrapper ends in
\* an exception
C10_Original == pc # "attrerror"

\* ---------------------------------------- properties of detect_rule

\* s occurs in t as a contiguous run of characters
IsSubstring(str, t) ==
    \E k \in 0..(Len(t) - Len(str)) : SubSeq(t, k + 1, k + Len(str)) = str

IsLiteral(str) == \A i \in 1..Len(str) : str[i] \notin {".", "*"}
HasChar(t, c) == \E i \in 1..Len(t) : t[i] = c
IsWildcard(field) == ~field.set \/ field.s = Star

\* C3: detect_rule returns the first rule in file order that matches the
\* window in class and in title, and None exactly when none does
C3_FirstMatchWins ==
    rpc = "done"
    => /\ found \in 0..Len(rules)
       /\ found # 0 => /\ RuleMatches(rules[found], win)
                       /\ \A j \in 1..(found - 1) : ~RuleMatches(rules[j], win)
       /\ found = 0 <=> \A j \in 1..Len(rules) : ~RuleMatches(rules[j], win)

\* C3 witness: the second rule names class and title and matches them, the
\* first names the class alone, and the first is returned
C3_Witness ==
    /\ rpc = "done"
    /\ Len(rules) = 2
    /\ rules[1].class = rules[2].class
    /\ rules[1].class.set /\ rules[1].class.s # Star
    /\ ~rules[1].title.set
    /\ rules[2].title.set /\ rules[2].title.s # Star
    /\ RuleMatches(rules[2], win)
    /\ found = 1

\* the one rule of the configuration constrains the class alone, by str
OnlyClass(str) ==
    /\ rpc = "done"
    /\ Len(rules) = 1
    /\ rules[1].class = Present(str)
    /\ ~rules[1].title.set

\* the one rule of the configuration constrains the title alone, by str
OnlyTitle(str) ==
    /\ rpc = "done"
    /\ Len(rules) = 1
    /\ rules[1].title = Present(str)
    /\ ~rules[1].class.set

\* C4 (as claimed): a class or title other than "*" matches exactly when it
\* occurs in the window's string as a substring, whatever its characters
C4_Original ==
    \A str \in Strings(PatChars, MaxPat) \ {<< >>} :
        /\ OnlyClass(str) => (found = 1 <=> IsSubstring(str, win.cls))
        /\ OnlyTitle(str) => (found = 1 <=> IsSubstring(str, win.title))

\* C4 (amended): a class or title that holds no regular-expression
\* metacharacter matches a window string without line breaks exactly when it
\* occurs in it as a case-sensitive substring
C4_LiteralIsSubstring ==
    \A str \in Strings(PatChars, MaxPat) \ {<< >>} :
        IsLiteral(str)
        => /\ (OnlyClass(str) /\ ~HasChar(win.cls, "\n"))
              => (found = 1 <=> IsSubstring(str, win.cls))
           /\ (OnlyTitle(str) /\ ~HasChar(win.title, "\n"))
              => (found = 1 <=> IsSubstring(str, win.title))

\* C4 witness: the class occurs inside the window's class, not at its start,
\* and the rule is found
C4_Witness ==
    /\ OnlyClass(<< "a" >>)
    /\ win.cls = << "A", "a" >>
    /\ found = 1

\* C5: a rule without class and title, or with "*" for them, matches every
\* window: detect_rule returns it, or a rule before it
C5_WildcardMatchesAll ==
    rpc = "done"
    => \A i \in 1..Len(rules) :
           (IsWildcard(rules[i].class) /\ IsWildcard(rules[i].title))
           => (RuleMatches(rules[i], win) /\ found \in 1..i)

\* C5 witness: the rule is the first, the window's class is the placeholder
\* "*" and its title is empty
C5_Witness ==
    /\ rpc = "done"
    /\ Len(rules) >= 1
    /\ ~rules[1].class.set /\ rules[1].title = Present(Star)
    /\ win = [cls |-> Star, title |-> << >>]
    /\ found = 1

\* ------------------------------------- properties of on_focus_event

\* the layer of the rule the notification in hand found, if it found one
HasLayer(e) == e.rule # 0 /\ Truthy(rules[e.rule].layer)

\* the notification in hand names the same window as the one before it
Repeated == nev >= 2 /\ prevEv.win = ev.win

\* C11 (as claimed): two consecutive focus notifications with the same class
\* and title cause at most one rule lookup and at most one change_layer call
C11_Original ==
    Repeated => /\ prevEv.looked + ev.looked <= 1
                /\ prevEv.tried + ev.tried <= 1

\* C11 (amended): two consecutive focus notifications with the same class and
\* title cause at most one change_layer call, and at most one rule lookup
\* when a rule matches the window; when no rule matches it, each of the two
\* is looked up and neither calls change_layer
C11_AtMostOneAttempt ==
    Repeated => /\ prevEv.tried + ev.tried <= 1
                /\ Scan(rules, ev.win, 1) # 0 => prevEv.looked + ev.looked <= 1
                /\ Scan(rules, ev.win, 1) = 0
                   => /\ prevEv.looked = 1 /\ ev.looked = 1
                      /\ prevEv.tried = 0 /\ ev.tried = 0

\* C11 witness: the first of the two called change_layer, the second was
\* dropped without a lookup
C11_Witness ==
    /\ Repeated
    /\ fpc = "idle"
    /\ prevEv.looked = 1 /\ prevEv.tried = 1
    /\ ev.looked = 0 /\ ev.tried = 0

\* the notification before the one in hand was for a window no rule matched
AfterUnmatched == nev >= 2 /\ prevEv.looked = 1 /\ prevEv.rule = 0

\* a notification for a window no rule matches writes nothing to the daemon,
\* triggers no side effect and leaves last-seen as it was
UnmatchedDoesNothing ==
    (ev.looked = 1 /\ ev.rule = 0)
    => /\ ev.tried = 0 /\ ev.sent = 0 /\ ev.fx = << >>
       /\ last = ev.last0
       /\ fpc = "idle"

\* the notification in hand was looked up and dispatched
Dispatched ==
    /\ ev.looked = 1
    /\ ev.rule = Scan(rules, ev.win, 1)
    /\ HasLayer(ev) => (fpc = "change" \/ ev.tried = 1)

\* C12 (as claimed): a notification for a window no rule matches does nothing
\* and leaves last-seen unchanged, so that the next notification for a window
\* that a rule matches is looked up and dispatched
C12_Original ==
    /\ UnmatchedDoesNothing
    /\ (AfterUnmatched /\ Scan(rules, ev.win, 1) # 0) => Dispatched

\* C12 (amended): ... so that the next notification for a window that a rule
\* matches and that is not the last-seen window is looked up and dispatched
C12_UnmatchedLeavesLastSeen ==
    /\ UnmatchedDoesNothing
    /\ (AfterUnmatched /\ Scan(rules, ev.win, 1) # 0 /\ ev.win # ev.last0)
       => Dispatched

\* C12 witness: after a window no rule matched, a window a rule matches is
\* looked up and its layer switched to
C12_Witness ==
    /\ AfterUnmatched
    /\ prevEv.sent = 0
    /\ ev.rule # 0
    /\ ev.tried = 1 /\ ev.ok
    /\ fpc = "idle"

\* the notification in hand found a rule without a layer
FoundNoLayer == ev.rule # 0 /\ ~Truthy(rules[ev.rule].layer)

\* C13 (as claimed): a notification that finds a rule without a layer changes
\* no layer, triggers no side effect and does not update last-seen
C13_Original ==
    FoundNoLayer => /\ ev.tried = 0 /\ ev.sent = 0 /\ ev.fx = << >>
                    /\ last = ev.last0

\* C13 (amended): a notification that finds a rule without a layer changes no
\* layer and triggers no side effect; last-seen becomes the new window
C13_NoLayerNoEffect ==
    FoundNoLayer => /\ ev.tried = 0 /\ ev.sent = 0 /\ ev.fx = << >>
                    /\ fpc = "idle"
                    /\ last = ev.win

\* C13 witness: the rule found has no layer but names all three side effects
C13_Witness ==
    /\ FoundNoLayer
    /\ Truthy(rules[ev.rule].cmd)
    /\ Truthy(rules[ev.rule].fake_key)
    /\ Truthy(rules[ev.rule].set_mouse)
    /\ ev.last0 # ev.win
    /\ last = ev.win

\* change_layer has returned to the handler for the notification in hand
Returned == ev.tried = 1 /\ fpc \notin {"change", "crashed"}

\* C14 (as claimed): last-seen is updated to the new window only if
\* change_layer reported a switch; if it did not, last-seen is as before
C14_Original ==
    (HasLayer(ev) /\ Returned /\ ~ev.ok) => last = ev.last0

\* C14 (amended): when the notification finds a rule with a layer, last-seen
\* is the new window from the lookup on, before change_layer is called and
\* whatever it returns
C14_LastSeenSetOnMatch ==
    HasLayer(ev) => last = ev.win

\* C14 witness: change_layer returned False, the rule's layer being the
\* active one, and last-seen is the new window
C14_Witness ==
    /\ HasLayer(ev) /\ Returned /\ ~ev.ok
    /\ LayerText(layer) = rules[ev.rule].layer
    /\ ev.last0 # ev.win
    /\ last = ev.win

\* the place of a side effect in the order cmd, fake_key, set_mouse
Rank(e) == CASE e = "cmd" -> 1 [] e = "fake_key" -> 2 [] e = "set_mouse" -> 3

\* C15: within one dispatch the side effects are triggered only after
\* change_layer returned True, each at most once, in the order cmd, fake_key,
\* set_mouse, and only those the rule names; none after False
C15_EffectsAfterSwitch ==
    /\ ev.fx # << >> => (ev.tried = 1 /\ ev.ok)
    /\ fpc \in {"cmd", "fake_key", "set_mouse"} => (ev.tried = 1 /\ ev.ok)
    /\ \A i, j \in 1..Len(ev.fx) : i < j => Rank(ev.fx[i]) < Rank(ev.fx[j])
    /\ \A i \in 1..Len(ev.fx) : Truthy(rules[ev.rule][ev.fx[i]])
    /\ (fpc = "idle" /\ ev.tried = 1 /\ ev.ok)
       => \A e \in {"cmd", "fake_key", "set_mouse"} :
              Truthy(rules[ev.rule][e]) => \E i \in 1..Len(ev.fx) : ev.fx[i] = e

\* C15 witness: all three were triggered
C15_Witness ==
    /\ fpc = "idle"
    /\ ev.ok
    /\ ev.fx = << "cmd", "fake_key", "set_mouse" >>

\* ------------------------------------------ properties of _validate

\* validation has ended at a rule: the rule it examined last
Examined == vpc = "ended" /\ vi \in 1..Len(rules)

\* a value of class, title, layer or cmd that is neither a non-blank string
\* nor false, null or left out
BadString(v) ==
    /\ v.t \notin {"missing", "null", "false"}
    /\ \/ v.t # "str"
       \/ v.s = << >>
       \/ \A i \in 1..Len(v.s) : v.s[i] \in {" ", "\t", "\n"}

\* a rule with a key outside the six, or with a bad class, title, layer or cmd
BadKeyOrString(rule) ==
    /\ rule.t = "obj"
    /\ \/ rule.other # Missing
       \/ \E key \in {"class", "title", "layer", "cmd"} : BadString(rule[key])

\* C16: validation rejects, with a fatal error that names the rule's number,
\* every rule with a key outside class, title, layer, fake_key, set_mouse,
\* cmd, and every rule whose class, title, layer or cmd is an empty or blank
\* string or a value that is neither a string nor false nor null
C16_RejectsBadKeysAndStrings ==
    /\ (Examined /\ BadKeyOrString(rules[vi]))
       => (vres.kind = "fatal" /\ vres.rule = vi)
    /\ vres.kind = "ok" => \A i \in 1..Len(rules) : ~BadKeyOrString(rules[i])

\* C16 witness: the second rule's title is the number 0, the first rule is
\* fine, and the error names rule 2 and the title
C16_Witness ==
    /\ Examined
    /\ vi = 2
    /\ rules[2].title = JNum(0)
    /\ vres = Outcome("fatal", 2, "title")

\* a rule whose layer is a string the daemon's list does not hold
UnknownLayer(rule) ==
    rule.t = "obj" /\ rule.layer.t = "str" /\ rule.layer.s \notin known

\* C17: a configuration with a rule whose layer is not in the list the daemon
\* reported is rejected with a fatal error; when validation completes, every
\* rule's layer, if set, is in the list
C17_Original ==
    (vpc = "ended" /\ vi >= 1)
    => /\ (\E i \in 1..Len(rules) : UnknownLayer(rules[i])) => vres.kind = "fatal"
       /\ vres.kind = "ok"
          => \A i \in 1..Len(rules) :
                 Truthy(rules[i].layer) => rules[i].layer.s \in known

\* C18: a configuration that violates the schema ends validation in the
\* fatal outcome and in no other failure; a rule that is no object, or an
\* empty object, is rejected with a fatal error naming its number
C18_Original ==
    (vpc = "ended" /\ vi >= 1)
    => /\ vres.kind \in {"ok", "fatal"}
       /\ (rules[vi].t # "obj" \/ rules[vi] = EmptyRule)
          => (vres.kind = "fatal" /\ vres.rule = vi)

\* an array of exactly two integers
IsPair(v) ==
    v.t = "list" /\ Len(v.a) = 2 /\ \A i \in 1..Len(v.a) : v.a[i].t = "num"

\* C19: every rule of a configuration that validation accepted has set_mouse
\* left out (or disabled) or an array of exactly two integers
C19_Original ==
    vres.kind = "ok"
    => \A i \in 1..Len(rules) : Truthy(rules[i].set_mouse) => IsPair(rules[i].set_mouse)

\* str.lower of a string
LowerAll(str) == [i \in 1..Len(str) |-> LowerOf(str[i])]

\* an array of exactly two strings, the first not blank, the second one of
\* Press, Release, Tap, Toggle in any case
GoodFakeKey(v) ==
    /\ v.t = "list" /\ Len(v.a) = 2
    /\ \A i \in 1..Len(v.a) : v.a[i].t = "str"
    /\ \E i \in 1..Len(v.a[1].s) : v.a[1].s[i] \notin {" ", "\t", "\n"}
    /\ LowerAll(v.a[2].s) \in {LowerAll(act) : act \in ValidActions}

\* C20: validation accepts a fake_key only if it is an array of two strings,
\* the first not blank, the second an action in any case; every other value
\* ends validation in a fatal error whose message names the rule's number
C20_Original ==
    /\ vres.kind = "ok"
       => \A i \in 1..Len(rules) :
              Truthy(rules[i].fake_key) => GoodFakeKey(rules[i].fake_key)
    /\ (/\ Examined
        /\ rules[vi].t = "obj"
        /\ ~BadKeyOrString(rules[vi])
        /\ Truthy(rules[vi].fake_key)
        /\ ~GoodFakeKey(rules[vi].fake_key))
       => (vres.kind = "fatal" /\ vres.rule = vi)

\* ------------------------------- properties of the client and the program

\* the rules with each class and title that is false or null left out
AsAbsent(rs) ==
    [i \in 1..Len(rs) |->
        [class |-> IF rs[i].class.t # "str" THEN Absent ELSE rs[i].class,
         title |-> IF rs[i].title.t # "str" THEN Absent ELSE rs[i].title]]

\* C21: a rule whose class or title is false or null behaves in detect_rule
\* as the rule without that key does: the key constrains no window
C21_Original ==
    rpc = "done" => found = Scan(AsAbsent(rules), win, 1)

\* C22: the connection is made by the client's first send and never again;
\* the first request written on it is _connect's RequestCurrentLayerName,
\* written once, while the request that caused the connect is still pending
C22_PrimedOnce ==
    [][/\ connected => connected'
       /\ connected' # connected =>
            /\ pc = "idle" /\ hist = << >> /\ nreq = 0
            /\ cur'.stage = "prime" /\ cur'.req = ReqCurrentLayerName
            /\ cur'.pending = FirstRequest(cur'.op) /\ cur'.wrote = << >>
       /\ nreq' # nreq =>
            /\ connected /\ nreq' = nreq + 1
            /\ (nreq = 0) <=> (cur.stage = "prime")
            /\ cur.stage = "prime" =>
                 /\ cur.wrote = << >>
                 /\ cur'.wrote = << "RequestCurrentLayerName" >>
                 /\ cur'.pending = FirstRequest(cur.op)]_vars

\* the first call has returned: its priming query and its own request were
\* written, in that order, and a later call wrote its request without priming
C22_Witness ==
    /\ Len(hist) = 2
    /\ hist[1].op = "get_layer_names"
    /\ hist[1].wrote = << "RequestCurrentLayerName", "RequestLayerNames" >>
    /\ hist[2].wrote = << "RequestLayerNames" >>

\* a send of the client is under way, begun after the daemon dropped the
\* connection
SendAfterDrop == pc \in {"flush", "recv"} /\ cur.late

\* C23: a send begun after the daemon dropped the connection ends the
\* process (fatal, or an exception nothing catches); it does not return to
\* its caller, and the client does not connect again
C23_Original ==
    [][SendAfterDrop =>
         /\ lastSend' = lastSend
         /\ pc' \in {"flush", "recv", "fatal", "oserror"}
         /\ connected' = connected]_vars

\* the calls of change_layer that have returned
LayerCalls == {i \in 1..Len(hist) : hist[i].op = "change_layer"}

\* a returned change_layer wrote ChangeLayer and gave true exactly when the
\* reply its query obtained did not name the layer asked for
RightOutcome(i) ==
    /\ hist[i].res = "True" <=> hist[i].qname # hist[i].arg
    /\ (\E j \in 1..Len(hist[i].wrote) : hist[i].wrote[j] = "ChangeLayer")
         <=> hist[i].qname # hist[i].arg

\* C27: whatever reply the current-layer query of change_layer(L) obtains
\* (none, or one that cannot be read, included), change_layer goes on: it
\* writes ChangeLayer and returns true if and only if that reply does not
\* name L
C27_Original ==
    /\ \A i \in LayerCalls : RightOutcome(i)
    /\ ~(pc = "attrerror" /\ cur.op = "change_layer" /\ cur.stage = "query")

\* ------------------------------------------- properties of the dispatch

\* a command thread takes a step
CmdStep == cmds' # cmds /\ Len(cmds') = Len(cmds)

C28_LayerFollowsFocus ==
    (ev.told /\ ev.want # "" /\ fpc # "change") => layer = ev.want

\* three notifications, each for a window whose rule has a layer, the layer
\* wanted changing each time and the daemon following
C28_Witness ==
    /\ nev = 3
    /\ fpc = "idle"
    /\ ev.told
    /\ ev.tried = 1 /\ ev.ok
    /\ prevEv.tried = 1 /\ prevEv.ok
    /\ ev.want # prevEv.want
    /\ layer = ev.want

\* ------------------------------------------- properties of the program

\* C25: after a signal that came once the client had connected, the socket
\* has been closed, the process has ended, and no request has been written
\* since the signal
C25_Original ==
    (sig.name # "none" /\ sig.open)
    => (mpc \in Ended /\ sock = "closed" /\ Len(wire) = sig.n)

\* C29: every ActOnFakeKey request written, for a rule's fake_key or for
\* --fake-key, has a name that is not blank and an action that is one of
\* Press, Release, Tap, Toggle
C29_FakeKeyRequestsValid ==
    \A i \in 1..Len(wire) :
       wire[i].k = "ActOnFakeKey"
       => (~IsBlank(wire[i].name) /\ wire[i].action \in ValidActions)

\* listen has acted on the fake key of a rule whose action is written in
\* upper case in the configuration
C29_Witness ==
    /\ args.cmd = "listen"
    /\ rules[1].fake_key = JList(<< EStr(<< "k" >>), EStr(<< "T", "A", "P" >>) >>)
    /\ wire # << >>
    /\ wire[Len(wire)] = [k |-> "ActOnFakeKey", name |-> << "k" >>,
                          action |-> << "T", "a", "p" >>]

\* C30: --layers, run with a configuration that has a rule whose layer the
\* daemon does not define (the daemon answering), prints the layer names
C30_Original ==
    (/\ args.cmd = "layers"
     /\ known # {}
     /\ UnknownLayer(rules[1])
     /\ sig.name = "none"
     /\ mpc \in Ended)
    => printed = << "names" >>

\* ------------------------------------------ properties of validate_port

\* a numeral: decimal digits and nothing else; its value within lo..hi
Numeral(str, lo, hi) ==
    /\ str # << >>
    /\ \A i \in 1..Len(str) : IsDecimal(str[i])
    /\ lo <= Decimal(str) /\ Decimal(str) <= hi

\* ip:p with four octets in 0..255 separated by dots and a port in 1..65535
IpAndPort(str) ==
    /\ Len(SplitAt(str, ":")) = 2
    /\ Len(SplitAt(SplitAt(str, ":")[1], ".")) = 4
    /\ \A i \in 1..4 : Numeral(SplitAt(SplitAt(str, ":")[1], ".")[i], 0, 255)
    /\ Numeral(SplitAt(str, ":")[2], 1, 65535)

\* C26: validate_port gives ("127.0.0.1", p) for a bare port p in 1..65535,
\* (ip, p) for ip:p with four octets in 0..255 and p in 1..65535, and the
\* fatal outcome for every other text
C26_Original ==
    addr # NoAddress
    => IF Numeral(port, 1, 65535) THEN addr = Address(Loopback, Decimal(port))
       ELSE IF IpAndPort(port)
            THEN addr = Address(SplitAt(port, ":")[1],
                                Decimal(SplitAt(port, ":")[2]))
       ELSE addr.kind = "fatal"

====
